---- MODULE Spec2Model ----
(***************************************************************************)
(* Mark Running Late relay (src/index.js).                                 *)
(*                                                                         *)
(* src/index.js holds two copies of the service: lines 1-220 (version      *)
(* 3.0.0) and lines 222-427 (the earlier version).  getToken and           *)
(* callMeevoAPI are the same in both; the POST /mark-late handlers         *)
(* differ in how the client is looked up and in where the appointment      *)
(* details of the update come from.  The variable `version` says which     *)
(* copy serves the process; it is chosen at start and never changes.       *)
(*                                                                         *)
(* Time is in milliseconds, as Date.now().  Strings the code inspects      *)
(* character by character (phone, email) are tuples of one-character       *)
(* strings; the empty tuple stands for an absent or empty value, both      *)
(* falsy in JavaScript.                                                    *)
(***************************************************************************)
EXTENDS Integers, Sequences, FiniteSets, TLC

VARIABLES
    version,      \* which copy of the handler is deployed: 1 (v3.0.0) or 2
    now,          \* Date.now()
    token,        \* let token (0 is null)
    tokenExpiry,  \* let tokenExpiry (-1 is null)
    h,            \* per request: the handler's position and locals
    calls,        \* per request: the upstream calls issued, in order (h[r].authToken is
                  \* the token the call in flight carries)
    responses,    \* per request: the responses sent with res.json
    issue,        \* the token response the slot was last filled from: its access_token,
                  \* when it was issued and received, and its lifetime expires_in, in ms
    obs           \* per request: what the upstream returned to the handler

vars == <<version, now, token, tokenExpiry, h, calls, responses, issue, obs>>

----------------------------------------------------------------------------
(* Bounds of the model *)

\* clock ticks the model lets pass
MaxTicks == 3
\* longest appointment list the upstream returns
MaxApts == 2
\* distinct access_token values the token endpoint hands out
MaxTokens == 2
\* longest client_phone a caller sends, in characters
MaxPhoneLen == 11

(* Program constants *)

\* the safety margin of getToken, src/index.js:42
Margin == 300000
\* expires_in is in seconds, src/index.js:50
MsPerSecond == 1000
\* res.json answers with the default status
StatusOK == 200

\* one clock tick of the model, in ms: the margin
TickMs == Margin

Requests == {1}

Undefined == "undefined"
CONFIG_TENANT_ID == "200507"
CONFIG_LOCATION_ID == "201664"

GenericError == "Failed to mark appointment as running late"
MissingError == "Missing appointment_service_id or client_phone/client_email to lookup"
NoClientError == "No client found with that phone number or email"
NoAppointmentsError == "No appointments found for this client"
NoUpcomingError == "No upcoming appointments found to mark as running late"
NoDetailsError == "Could not get appointment details"
SuccessMessage == "Your barber has been notified that you're running late."

----------------------------------------------------------------------------
(* Strings as tuples of characters *)

Digits == {"0", "1", "2", "3", "4", "5", "6", "7", "8", "9"}

IsDigit(c) == c \in Digits

\* s.replace(/\D/g, '')
StripNonDigits(s) == SelectSeq(s, IsDigit)

\* the first ten characters instead of the last ten
MutSliceFirst10(s) == IF Len(s) <= 10 THEN s ELSE SubSeq(s, 1, 10)

\* s.slice(-10)
SliceLast10(s) == IF Len(s) <= 10 THEN s ELSE SubSeq(s, Len(s) - 9, Len(s))

\* client_phone?.replace(/\D/g, '').slice(-10)
normalizedPhone(client_phone) == SliceLast10(StripNonDigits(client_phone))

LowerChar(c) ==
    CASE c = "A" -> "a"
      [] c = "B" -> "b"
      [] c = "X" -> "x"
      [] OTHER -> c

\* client_email?.toLowerCase()
normalizedEmail(client_email) == [i \in 1..Len(client_email) |-> LowerChar(client_email[i])]

\* JavaScript truthiness of a string held as a tuple of characters
Truthy(s) == Len(s) > 0

\* JavaScript truthiness of an identifier string
TruthyId(s) == s # "" /\ s # Undefined

----------------------------------------------------------------------------
(* What a caller may send: req.body *)

PhoneScenarioA == <<"+", "1", " ", "(", "5", "5", "5", ")", " ", "1", "2", "3", "-", "4", "5", "6", "7">>
PhoneNoDigits == <<"-">>
EmailMixed == <<"B", "@", "X">>

Body(id, phone, email, loc) ==
    [appointment_service_id |-> id, client_phone |-> phone, client_email |-> email,
     location_id |-> loc]

Bodies ==
    {Body("", <<>>, <<>>, ""),
     Body("", <<>>, <<>>, "L2"),
     Body("APT-42", <<>>, <<>>, ""),
     Body("APT-42", PhoneScenarioA, EmailMixed, "L2"),
     Body("", PhoneScenarioA, <<>>, ""),
     Body("", PhoneScenarioA, EmailMixed, "L2"),
     Body("", <<>>, EmailMixed, ""),
     Body("", PhoneNoDigits, <<>>, ""),
     Body("", PhoneNoDigits, EmailMixed, "")}

\* req.body when no body was parsed
NoBody == [appointment_service_id |-> Undefined, client_phone |-> <<>>,
           client_email |-> <<>>, location_id |-> Undefined]

(* What the upstream may return *)

ClientRecs ==
    {[clientId |-> "CL1",
      primaryPhoneNumber |-> <<"(", "5", "5", "5", ")", "1", "2", "3", "4", "5", "6", "7">>,
      emailAddress |-> <<>>],
     [clientId |-> "CL2", primaryPhoneNumber |-> <<"5", "5", "5">>,
      emailAddress |-> <<"b", "@", "X">>]}

\* a response's data: <<>> when absent, <<d>> when it is d
ClientLists == {<<>>} \cup {<<c>> : c \in ClientRecs} \cup {<<c, d>> : c, d \in ClientRecs}

StartTimes == {TickMs, 2 * TickMs}
CcdValues == {7, 8}

AptIds == <<"A1", "A2", "A3", "A4">>

\* the concurrencyCheckDigits a listing carries: the value at listing time
ListedCcd == CHOOSE d \in CcdValues : \A e \in CcdValues : d <= e

\* the appointment summary at position i of a listing
AptAt(i, t, c) ==
    [appointmentServiceId |-> AptIds[i], startTime |-> t, isCancelled |-> c,
     serviceId |-> "S1", clientId |-> "CL1", employeeId |-> "E1",
     concurrencyCheckDigits |-> ListedCcd]

AptsAt(i) == {AptAt(i, t, c) : t \in StartTimes, c \in BOOLEAN}

RECURSIVE AptListsOfLen(_)
AptListsOfLen(n) ==
    IF n = 0 THEN {<<>>}
    ELSE {Append(l, a) : l \in AptListsOfLen(n - 1), a \in AptsAt(n)}

AptLists == UNION {AptListsOfLen(n) : n \in 0..MaxApts}

\* the data of a running-late read
DetailsData ==
    {[serviceId |-> "S1", clientId |-> "CL1", employeeId |-> "E1",
      concurrencyCheckDigits |-> d, startTime |-> t] : d \in CcdValues, t \in StartTimes}

\* an error thrown by axios: error.response?.data?.error?.message
Errors ==
    {[hasResponse |-> FALSE, message |-> Undefined],
     [hasResponse |-> TRUE, message |-> Undefined],
     [hasResponse |-> TRUE, message |-> ""],
     [hasResponse |-> TRUE, message |-> "Concurrency conflict"],
     [hasResponse |-> TRUE, message |-> "invalid_client"]}

\* a TypeError raised inside the handler: it has no response
TypeError == [hasResponse |-> FALSE, message |-> Undefined]

\* expires_in values (seconds) the token endpoint reports
ExpiresIn == {60, 900}

TokenValues == 1..MaxTokens

----------------------------------------------------------------------------
(* Token Manager: getToken *)

\* the guard without the expiry test
MutTokenValidIgnoresExpiry(tok, expiry, t) == tok # 0

\* the guard without its safety margin
MutTokenValidNoMargin(tok, expiry, t) == tok # 0 /\ expiry # -1 /\ expiry # 0 /\ t < expiry

\* if (token && tokenExpiry && Date.now() < tokenExpiry - 300000) return token;
TokenValid(tok, expiry, t) == tok # 0 /\ expiry # -1 /\ expiry # 0 /\ t < expiry - Margin

\* the expiry taken as seconds
MutNewExpirySeconds(t, expires_in) == t + expires_in

\* tokenExpiry = Date.now() + (res.data.expires_in * 1000);
NewExpiry(t, expires_in) == t + expires_in * MsPerSecond

(* callMeevoAPI: the requests it sends *)

NoData == [none |-> TRUE]

TokenCall ==
    [kind |-> "token", method |-> "POST", tenant |-> "", loc |-> "",
     id |-> "", body |-> NoData]

ApiCall(kind, method, loc, id, data) ==
    [kind |-> kind, method |-> method, tenant |-> CONFIG_TENANT_ID,
     loc |-> loc, id |-> id, body |-> data]

(* POST /mark-late: the pure parts of the handler *)

\* the caller's location_id ignored
MutLocationOfDefault(body) == CONFIG_LOCATION_ID

\* const locationId = location_id || CONFIG.LOCATION_ID;
LocationOf(body) == IF TruthyId(body.location_id) THEN body.location_id ELSE CONFIG_LOCATION_ID

\* the lookup started whenever no identifier was supplied
MutLookupNeededWithoutContact(body) == ~TruthyId(body.appointment_service_id)

\* the lookup started whenever a phone or email was supplied
MutLookupNeededIgnoringId(body) == Truthy(body.client_phone) \/ Truthy(body.client_email)

\* if (!aptServiceId && (client_phone || client_email))
LookupNeeded(body) ==
    /\ ~TruthyId(body.appointment_service_id)
    /\ (Truthy(body.client_phone) \/ Truthy(body.client_email))

\* the lookupBody of version 3.0.0
LookupBody(body) ==
    LET phone == normalizedPhone(body.client_phone)
        email == normalizedEmail(body.client_email)
    IN  IF Truthy(phone) THEN [PhoneNumbers |-> <<phone>>, EmailIds |-> <<>>]
        ELSE IF Truthy(email) THEN [PhoneNumbers |-> <<>>, EmailIds |-> <<email>>]
        ELSE [PhoneNumbers |-> <<>>, EmailIds |-> <<>>]

\* a client taken although the lookup found none
MutFirstClientIdDefault(data) ==
    LET clients == IF data = <<>> THEN <<>> ELSE data[1]
    IN  IF Len(clients) > 0 THEN clients[1].clientId ELSE "CL1"

\* version 3.0.0: clients[0].clientId of the lookup result, "" when there is none
FirstClientId(data) ==
    LET clients == IF data = <<>> THEN <<>> ELSE data[1]
    IN  IF Len(clients) > 0 THEN clients[1].clientId ELSE ""

\* earlier version: the predicate of clientsResult.data.find
ClientMatches(c, body) ==
    LET phone == normalizedPhone(body.client_phone)
        email == normalizedEmail(body.client_email)
    IN  \/ Truthy(phone) /\ normalizedPhone(c.primaryPhoneNumber) = phone
        \/ Truthy(email) /\ normalizedEmail(c.emailAddress) = email

\* earlier version: the clientId of the first client find returns, "" when none
FindClientId(data, body) ==
    LET clients == IF data = <<>> THEN <<>> ELSE data[1]
        hits == {i \in 1..Len(clients) : ClientMatches(clients[i], body)}
    IN  IF hits = {} THEN ""
        ELSE clients[CHOOSE i \in hits : \A j \in hits : i <= j].clientId

\* the filter without the cancellation test
MutFilterUpcomingKeepsCancelled(apts, t) ==
    LET Keep(a) == a.startTime >= t
    IN  SelectSeq(apts, Keep)

\* .filter(a => !a.isCancelled && new Date(a.startTime) >= now)
FilterUpcoming(apts, t) ==
    LET Keep(a) == ~a.isCancelled /\ a.startTime >= t
    IN  SelectSeq(apts, Keep)

\* one step of the stable sort: a goes after every element that is not later
InsertByStart(sorted, a) ==
    LET before == {i \in 1..Len(sorted) : sorted[i].startTime <= a.startTime}
        k == Cardinality(before)
    IN  SubSeq(sorted, 1, k) \o <<a>> \o SubSeq(sorted, k + 1, Len(sorted))

\* .sort((a, b) => new Date(a.startTime) - new Date(b.startTime)), which is stable
RECURSIVE SortByStart(_)
SortByStart(apts) ==
    IF apts = <<>> THEN <<>>
    ELSE InsertByStart(SortByStart(SubSeq(apts, 1, Len(apts) - 1)), apts[Len(apts)])

\* const upcoming = aptsResult.data.filter(...).sort(...)[0]: <<>> when undefined
SelectUpcoming(apts, t) ==
    LET sorted == SortByStart(FilterUpcoming(apts, t))
    IN  IF sorted = <<>> THEN <<>> ELSE <<sorted[1]>>

\* const updateBody = {...}
UpdateBody(details) ==
    [ServiceId |-> details.serviceId,
     ClientId |-> details.clientId,
     EmployeeId |-> details.employeeId,
     ConcurrencyCheckDigits |-> details.concurrencyCheckDigits,
     StartTime |-> details.startTime,
     IsRunningLate |-> TRUE]

\* the catch block answering with the generic text only
MutErrorMessageGenericOnly(error) == GenericError

\* the catch block without the fallback
MutErrorMessageNoFallback(error) == error.message

\* error.response?.data?.error?.message || 'Failed to mark appointment as running late'
ErrorMessage(error) ==
    IF error.hasResponse /\ error.message # Undefined /\ error.message # ""
    THEN error.message
    ELSE GenericError

\* res.json({ success: false, error: ... })
FailureResponse(text) ==
    [status |-> StatusOK, success |-> FALSE, marked_late |-> FALSE,
     appointment_service_id |-> Undefined, appointment_time |-> -1,
     message |-> Undefined, error |-> text]

\* res.json({ success: true, marked_late: true, ... })
SuccessResponse(aptServiceId, details) ==
    [status |-> StatusOK, success |-> TRUE, marked_late |-> TRUE,
     appointment_service_id |-> aptServiceId, appointment_time |-> details.startTime,
     message |-> SuccessMessage, error |-> Undefined]

\* a catch block that answers with a server error status
MutCatchResponseServerError(error) ==
    [status |-> 500, success |-> FALSE, marked_late |-> FALSE,
     appointment_service_id |-> Undefined, appointment_time |-> -1,
     message |-> Undefined, error |-> GenericError]

\* the catch block of the handler
CatchResponse(error) == FailureResponse(ErrorMessage(error))

----------------------------------------------------------------------------
(* State *)

IdleLocals ==
    [pc |-> "idle", cur |-> "none", body |-> NoBody, locationId |-> "",
     aptServiceId |-> "", clientId |-> "", appointmentDetails |-> <<>>,
     pend |-> TokenCall, tokSentAt |-> 0, authToken |-> 0]

NoObs ==
    [apts |-> <<>>, aptsAt |-> 0, read |-> <<>>, fail |-> <<>>, putOk |-> FALSE,
     empty |-> "none"]

\* a response that carries no data, or an empty list as data
IsEmpty(data) == data = <<>> \/ data = <<<<>>>>

\* the observation that the answer to the call of this kind was empty
Seen(o, kind, data) == IF IsEmpty(data) THEN [o EXCEPT !.empty = kind] ELSE o

NoIssue == [tok |-> 0, issuedAt |-> 0, receivedAt |-> 0, lifeMs |-> 0]

\* the appointment list is observed only in the state its answer leads to
Later(o) == [o EXCEPT !.apts = <<>>, !.aptsAt = 0]

Init ==
    /\ version \in {1, 2}
    /\ now = 0
    /\ token = 0
    /\ tokenExpiry = -1
    /\ h = [r \in Requests |-> IdleLocals]
    /\ calls = [r \in Requests |-> <<>>]
    /\ responses = [r \in Requests |-> <<>>]
    /\ issue = NoIssue
    /\ obs = [r \in Requests |-> NoObs]

\* callMeevoAPI(endpoint, method, data) up to its first pending request: getToken
\* answers from the cache and the call goes out, or the token endpoint is called
CallMeevoAPI(r, l, c, o) ==
    IF TokenValid(token, tokenExpiry, now)
    THEN /\ h' = [h EXCEPT ![r] = [l EXCEPT !.pc = "api", !.cur = c.kind,
                                            !.authToken = token]]
         /\ calls' = [calls EXCEPT ![r] = Append(@, c)]
         /\ obs' = [obs EXCEPT ![r] = o]
         /\ UNCHANGED responses
    ELSE /\ h' = [h EXCEPT ![r] = [l EXCEPT !.pc = "token", !.cur = c.kind,
                                            !.pend = c, !.tokSentAt = now]]
         /\ calls' = [calls EXCEPT ![r] = Append(@, TokenCall)]
         /\ obs' = [obs EXCEPT ![r] = o]
         /\ UNCHANGED responses

\* return res.json(resp)
Respond(r, l, resp, o) ==
    /\ h' = [h EXCEPT ![r] = [l EXCEPT !.pc = "done", !.cur = "none", !.authToken = 0]]
    /\ responses' = [responses EXCEPT ![r] = Append(@, resp)]
    /\ obs' = [obs EXCEPT ![r] = o]
    /\ UNCHANGED calls

DetailsCall(l) == ApiCall("details", "GET", l.locationId, l.aptServiceId, NoData)

PutCall(l, details) == ApiCall("put", "PUT", l.locationId, l.aptServiceId, UpdateBody(details))

----------------------------------------------------------------------------
(* Actions *)

\* a request arrives and the handler runs to its first upstream call or response
Receive(r, body) ==
    /\ h[r].pc = "idle"
    /\ LET l == [IdleLocals EXCEPT !.body = body,
                                   !.locationId = LocationOf(body),
                                   !.aptServiceId = body.appointment_service_id]
       IN  IF LookupNeeded(body)
           THEN IF version = 1
                THEN CallMeevoAPI(r, l,
                        ApiCall("lookup", "POST", l.locationId, "", LookupBody(body)), obs[r])
                ELSE CallMeevoAPI(r, l,
                        ApiCall("clients", "GET", l.locationId, "", NoData), obs[r])
           ELSE IF ~TruthyId(l.aptServiceId)
                THEN Respond(r, l, FailureResponse(MissingError), obs[r])
                ELSE CallMeevoAPI(r, l, DetailsCall(l), obs[r])
    /\ UNCHANGED <<version, now, token, tokenExpiry, issue>>

\* a request arrives with req.body undefined: the destructuring throws
ReceiveNoBody(r) ==
    /\ h[r].pc = "idle"
    /\ Respond(r, IdleLocals, CatchResponse(TypeError),
               [obs[r] EXCEPT !.fail = <<[kind |-> "handler", error |-> TypeError, at |-> now]>>])
    /\ UNCHANGED <<version, now, token, tokenExpiry, issue>>

\* the token endpoint answers: getToken stores the token and callMeevoAPI goes on
TokenReturn(r, access_token, expires_in, issuedAt) ==
    /\ h[r].pc = "token"
    /\ token' = access_token
    /\ tokenExpiry' = NewExpiry(now, expires_in)
    /\ issue' = [tok |-> access_token, issuedAt |-> issuedAt, receivedAt |-> now,
                 lifeMs |-> expires_in * MsPerSecond]
    /\ h' = [h EXCEPT ![r] = [@ EXCEPT !.pc = "api", !.pend = TokenCall, !.tokSentAt = 0,
                                       !.authToken = access_token]]
    /\ calls' = [calls EXCEPT ![r] = Append(@, h[r].pend)]
    /\ obs' = [obs EXCEPT ![r] = Later(@)]
    /\ UNCHANGED <<version, now, responses>>

\* a failed token call that also empties the slot
MutTokenFailClearsSlot(r, error) ==
    /\ h[r].pc = "token"
    /\ Respond(r, [h[r] EXCEPT !.pend = TokenCall, !.tokSentAt = 0], CatchResponse(error),
               [Later(obs[r]) EXCEPT !.fail = <<[kind |-> "token", error |-> error, at |-> now]>>])
    /\ token' = 0
    /\ tokenExpiry' = -1
    /\ issue' = NoIssue
    /\ UNCHANGED <<version, now>>

\* the token endpoint rejects or is unreachable: the error reaches the catch block
TokenFail(r, error) ==
    /\ h[r].pc = "token"
    /\ Respond(r, [h[r] EXCEPT !.pend = TokenCall, !.tokSentAt = 0], CatchResponse(error),
               [Later(obs[r]) EXCEPT !.fail = <<[kind |-> "token", error |-> error, at |-> now]>>])
    /\ UNCHANGED <<version, now, token, tokenExpiry, issue>>

\* an upstream API call fails: the error reaches the catch block
ApiFail(r, error) ==
    /\ h[r].pc = "api"
    /\ Respond(r, h[r], CatchResponse(error),
               [Later(obs[r]) EXCEPT !.fail = <<[kind |-> h[r].cur, error |-> error, at |-> now]>>])
    /\ UNCHANGED <<version, now, token, tokenExpiry, issue>>

\* version 3.0.0: /clients/lookup answers
LookupReturn(r, data) ==
    /\ h[r].pc = "api" /\ h[r].cur = "lookup"
    /\ LET clientId == FirstClientId(data)
           l == [h[r] EXCEPT !.clientId = clientId]
       IN  IF ~TruthyId(clientId)
           THEN Respond(r, l, FailureResponse(NoClientError), Seen(obs[r], "lookup", data))
           ELSE CallMeevoAPI(r, l, ApiCall("apts", "GET", l.locationId, clientId, NoData),
                             Seen(obs[r], "lookup", data))
    /\ UNCHANGED <<version, now, token, tokenExpiry, issue>>

\* earlier version: /clients answers
ClientsReturn(r, data) ==
    /\ h[r].pc = "api" /\ h[r].cur = "clients"
    /\ LET clientId == FindClientId(data, h[r].body)
           l == [h[r] EXCEPT !.clientId = clientId]
       IN  IF ~TruthyId(clientId)
           THEN Respond(r, l, FailureResponse(NoClientError), Seen(obs[r], "lookup", data))
           ELSE CallMeevoAPI(r, l, ApiCall("apts", "GET", l.locationId, clientId, NoData),
                             Seen(obs[r], "lookup", data))
    /\ UNCHANGED <<version, now, token, tokenExpiry, issue>>

\* /book/client/{clientId}/services answers
AptsReturn(r, data) ==
    /\ h[r].pc = "api" /\ h[r].cur = "apts"
    /\ IF data = <<>> \/ data = <<<<>>>>
       THEN Respond(r, h[r], FailureResponse(NoAppointmentsError), Seen(obs[r], "apts", data))
       ELSE LET upcoming == SelectUpcoming(data[1], now)
                o == [obs[r] EXCEPT !.apts = data, !.aptsAt = now]
            IN  IF upcoming = <<>>
                THEN Respond(r, h[r], FailureResponse(NoUpcomingError), o)
                ELSE IF version = 1
                     THEN LET l == [h[r] EXCEPT !.aptServiceId = upcoming[1].appointmentServiceId]
                          IN  CallMeevoAPI(r, l, DetailsCall(l), o)
                     ELSE LET l == [h[r] EXCEPT !.aptServiceId = upcoming[1].appointmentServiceId,
                                                !.appointmentDetails = upcoming]
                          IN  CallMeevoAPI(r, l, PutCall(l, upcoming[1]), o)
    /\ UNCHANGED <<version, now, token, tokenExpiry, issue>>

\* GET /book/service/runninglate answers
DetailsReturn(r, data) ==
    /\ h[r].pc = "api" /\ h[r].cur = "details"
    /\ IF data = <<>>
       THEN Respond(r, h[r], FailureResponse(NoDetailsError),
                    Seen(Later(obs[r]), "details", data))
       ELSE LET l == [h[r] EXCEPT !.appointmentDetails = data]
            IN  CallMeevoAPI(r, l, PutCall(l, data[1]), [Later(obs[r]) EXCEPT !.read = data])
    /\ UNCHANGED <<version, now, token, tokenExpiry, issue>>

\* the handler ends after the write without sending a response
MutPutReturnNoResponse(r) ==
    /\ h[r].pc = "api" /\ h[r].cur = "put"
    /\ h' = [h EXCEPT ![r].pc = "ended", ![r].cur = "none"]
    /\ UNCHANGED <<version, now, token, tokenExpiry, issue, calls, responses, obs>>

\* PUT /book/service/runninglate answers without error
PutReturn(r) ==
    /\ h[r].pc = "api" /\ h[r].cur = "put"
    /\ Respond(r, h[r], SuccessResponse(h[r].aptServiceId, h[r].appointmentDetails[1]),
               [Later(obs[r]) EXCEPT !.putOk = TRUE])
    /\ UNCHANGED <<version, now, token, tokenExpiry, issue>>

\* time passes
Tick ==
    /\ now < MaxTicks * TickMs
    /\ now' = now + TickMs
    /\ UNCHANGED <<version, token, tokenExpiry, h, calls, responses, issue, obs>>

\* the response is out; the next request may arrive
Reset(r) ==
    /\ h[r].pc = "done"
    /\ h' = [h EXCEPT ![r] = IdleLocals]
    /\ calls' = [calls EXCEPT ![r] = <<>>]
    /\ responses' = [responses EXCEPT ![r] = <<>>]
    /\ obs' = [obs EXCEPT ![r] = NoObs]
    /\ UNCHANGED <<version, now, token, tokenExpiry, issue>>

Next ==
    \/ \E r \in Requests, body \in Bodies : Receive(r, body)
    \/ \E r \in Requests : ReceiveNoBody(r)
    \/ \E r \in Requests, a \in TokenValues, e \in ExpiresIn :
            \E t \in {h[r].tokSentAt, now} : TokenReturn(r, a, e, t)
    \/ \E r \in Requests, error \in Errors : TokenFail(r, error)
    \/ \E r \in Requests, error \in Errors : ApiFail(r, error)
    \/ \E r \in Requests, data \in {<<>>} \cup {<<l>> : l \in ClientLists} : LookupReturn(r, data)
    \/ \E r \in Requests, data \in {<<>>} \cup {<<l>> : l \in ClientLists} : ClientsReturn(r, data)
    \/ \E r \in Requests, data \in {<<>>} \cup {<<l>> : l \in AptLists} : AptsReturn(r, data)
    \/ \E r \in Requests, data \in {<<>>} \cup {<<d>> : d \in DetailsData} : DetailsReturn(r, data)
    \/ \E r \in Requests : PutReturn(r)
    \/ \E r \in Requests : Reset(r)
    \/ Tick

Spec == Init /\ [][Next]_vars

----------------------------------------------------------------------------
(* Reading the state *)

Last(s) == s[Len(s)]

\* the positions of the upstream API calls (not token calls) of a log before position i
ApiCallsBefore(log, i) == {j \in 1..(i - 1) : log[j].kind # "token"}

Max(S) == CHOOSE x \in S : \A y \in S : y <= x

\* in this step getToken is called on behalf of request r
GetTokenCalled(r) ==
    /\ h[r].pc \in {"idle", "api"}
    /\ Len(calls'[r]) = Len(calls[r]) + 1

\* in this step getToken returns a token to callMeevoAPI for request r
GetTokenReturns(r) ==
    /\ h'[r].pc = "api"
    /\ Len(calls'[r]) = Len(calls[r]) + 1

\* in this step getToken returns the cached token for request r
GetTokenReturnsCached(r) == GetTokenCalled(r) /\ GetTokenReturns(r)

\* the call in flight for request r went out with a token served from the cache
CachedInFlight(r) ==
    /\ h[r].pc = "api"
    /\ \/ Len(calls[r]) = 1
       \/ Len(calls[r]) > 1 /\ calls[r][Len(calls[r]) - 1].kind # "token"

----------------------------------------------------------------------------
(* C1 *)

\* C1: every running-late write (PUT) carries the ConcurrencyCheckDigits returned
\* by a running-late read (GET) of the same request, and that read is the upstream
\* API call right before the write; the value never comes from the appointments
\* listing.
C1_WriteCarriesFreshlyReadDigits ==
    \A r \in Requests : \A i \in 1..Len(calls[r]) :
        calls[r][i].kind = "put" =>
            LET before == ApiCallsBefore(calls[r], i)
            IN  /\ before # {}
                /\ calls[r][Max(before)].kind = "details"
                /\ obs[r].read # <<>>
                /\ calls[r][i].body.ConcurrencyCheckDigits
                       = obs[r].read[1].concurrencyCheckDigits

----------------------------------------------------------------------------
(* C2 *)

\* C2 as stated: getToken never returns a token at a moment within 5 minutes of
\* the token's expiry, the expiry being issue time plus expires_in; for cached and
\* for just obtained tokens alike.
C2_NeverReturnedWithinMarginOfExpiry ==
    [][\A r \in Requests :
          GetTokenReturns(r) => now' < issue'.issuedAt + issue'.lifeMs - Margin]_vars

\* C2 as amended: getToken returns the cached token only at a moment more than
\* 5 minutes before the stored expiry, which is the time the token response was
\* received plus expires_in; the token it returns is the one in the slot.
C2_CachedTokenOutsideStoredMargin ==
    [][\A r \in Requests :
          GetTokenReturnsCached(r) =>
              /\ now < issue.receivedAt + issue.lifeMs - Margin
              /\ token # 0
              /\ h'[r].authToken = token]_vars

\* a call is in flight with a token served from the cache, after time has passed
\* since that token was received
C2_Witness ==
    \E r \in Requests :
        /\ CachedInFlight(r)
        /\ h[r].authToken = token
        /\ now > issue.receivedAt

----------------------------------------------------------------------------
(* C3 *)

NoTwoTokenCallsInARow(log) ==
    \A i \in 1..(Len(log) - 1) : ~(log[i].kind = "token" /\ log[i + 1].kind = "token")

\* C3: a getToken call made while a token is cached and the time is more than
\* 5 minutes before the stored expiry returns that token and calls no token
\* endpoint; any other getToken call makes exactly one token-endpoint call.
C3_CacheHitOrExactlyOneRefresh ==
    [][\A r \in Requests :
          GetTokenCalled(r) =>
              /\ IF token # 0 /\ tokenExpiry # -1 /\ now + Margin < tokenExpiry
                 THEN /\ Last(calls'[r]).kind # "token"
                      /\ h'[r].pc = "api"
                      /\ h'[r].authToken = token
                      /\ token' = token /\ tokenExpiry' = tokenExpiry
                 ELSE /\ Last(calls'[r]) = TokenCall
                      /\ h'[r].pc = "token"
              /\ NoTwoTokenCallsInARow(calls'[r])]_vars

\* a request refreshed the token once and its next two calls were served from
\* the cache
C3_Witness ==
    \E r \in Requests : \E i \in 1..Len(calls[r]) :
        /\ i + 3 <= Len(calls[r])
        /\ calls[r][i].kind = "token"
        /\ calls[r][i + 1].kind # "token"
        /\ calls[r][i + 2].kind # "token"
        /\ calls[r][i + 3].kind # "token"

----------------------------------------------------------------------------
(* C4 *)

\* the body supplies none of appointment_service_id, client_phone, client_email
SuppliesNothing(body) ==
    /\ body \in Bodies
    /\ body.appointment_service_id = ""
    /\ body.client_phone = <<>>
    /\ body.client_email = <<>>

----------------------------------------------------------------------------
(* C5 *)

\* C5: when appointment_service_id is supplied, no client lookup and no
\* appointments query is made whatever phone and email hold; the running-late
\* read and write are issued for exactly that identifier, and a successful
\* response carries it.
C5_DirectIdSkipsResolution ==
    \A r \in Requests :
        (h[r].pc # "idle" /\ h[r].body \in Bodies
            /\ h[r].body.appointment_service_id # "") =>
            /\ \A i \in 1..Len(calls[r]) :
                  /\ calls[r][i].kind \in {"token", "details", "put"}
                  /\ calls[r][i].kind # "token" =>
                        calls[r][i].id = h[r].body.appointment_service_id
            /\ \A i \in 1..Len(responses[r]) :
                  responses[r][i].success =>
                      /\ responses[r][i].appointment_service_id
                            = h[r].body.appointment_service_id
                      /\ \E j, k \in 1..Len(calls[r]) :
                            /\ j < k
                            /\ calls[r][j].kind = "details"
                            /\ calls[r][k].kind = "put"

\* a request with identifier, phone and email has been answered with success
C5_Witness ==
    \E r \in Requests :
        /\ h[r].pc = "done"
        /\ h[r].body.appointment_service_id = "APT-42"
        /\ h[r].body.client_phone # <<>>
        /\ h[r].body.client_email # <<>>
        /\ Len(responses[r]) = 1
        /\ responses[r][1].success

----------------------------------------------------------------------------
(* C6 *)

\* the positions of a listing that are not cancelled and start at t or later
Qualifying(list, t) ==
    {i \in 1..Len(list) : ~list[i].isCancelled /\ list[i].startTime >= t}

\* C6: from a non-empty appointment list the resolver takes the appointment that
\* is not cancelled, starts now or later and starts earliest among those, the
\* first in upstream order among equal start times; when there is none the
\* request fails with 'No upcoming appointments ...' and no running-late read
\* or write is issued.
C6_SelectsEarliestUpcoming ==
    \A r \in Requests :
        obs[r].apts # <<>> =>
            LET list == obs[r].apts[1]
                ok == Qualifying(list, obs[r].aptsAt)
            IN  IF ok = {}
                THEN /\ h[r].pc = "done"
                     /\ responses[r] = <<FailureResponse(NoUpcomingError)>>
                     /\ \A i \in 1..Len(calls[r]) : calls[r][i].kind \notin {"details", "put"}
                ELSE \E i \in ok :
                        /\ h[r].aptServiceId = list[i].appointmentServiceId
                        /\ \A j \in ok :
                              \/ list[i].startTime < list[j].startTime
                              \/ list[i].startTime = list[j].startTime /\ i <= j

\* a listing whose first appointment is cancelled and whose second qualifies,
\* the second being the one selected
C6_Witness ==
    \E r \in Requests :
        /\ obs[r].apts # <<>>
        /\ Len(obs[r].apts[1]) >= 2
        /\ obs[r].apts[1][1].isCancelled
        /\ obs[r].apts[1][1].startTime < obs[r].apts[1][2].startTime
        /\ 2 \in Qualifying(obs[r].apts[1], obs[r].aptsAt)
        /\ h[r].aptServiceId = obs[r].apts[1][2].appointmentServiceId

----------------------------------------------------------------------------
(* C7 *)

ErrorTexts ==
    {GenericError, MissingError, NoClientError, NoAppointmentsError, NoUpcomingError,
     NoDetailsError} \cup ({e.message : e \in Errors} \ {Undefined, ""})

\* a MarkLateResult: {success:true, ...} or {success:false, error:<string>}
WellFormed(resp) ==
    /\ resp.status = StatusOK
    /\ IF resp.success
       THEN resp.error = Undefined /\ resp.marked_late
       ELSE resp.error \in ErrorTexts

----------------------------------------------------------------------------
(* C8 *)

\* C8: success:true is answered only after the running-late write of the request
\* returned without error; the response carries the identifier the read and the
\* write were issued for, and as appointment_time the startTime the running-late
\* read returned; when the write throws, the answer is success:false.
C8_SuccessOnlyAfterWriteOfReadAppointment ==
    \A r \in Requests :
        /\ \A i \in 1..Len(responses[r]) :
              responses[r][i].success =>
                  /\ obs[r].putOk
                  /\ calls[r] # <<>>
                  /\ Last(calls[r]).kind = "put"
                  /\ responses[r][i].appointment_service_id = Last(calls[r]).id
                  /\ \E j \in 1..Len(calls[r]) :
                        /\ calls[r][j].kind = "details"
                        /\ calls[r][j].id = Last(calls[r]).id
                  /\ obs[r].read # <<>>
                  /\ responses[r][i].appointment_time = obs[r].read[1].startTime
        /\ (obs[r].fail # <<>> /\ obs[r].fail[1].kind = "put") =>
              (Len(responses[r]) = 1 /\ ~responses[r][1].success)

----------------------------------------------------------------------------
(* C9 *)

\* the upstream error carries error.message
CarriesMessage(error) ==
    error.hasResponse /\ error.message # Undefined /\ error.message # ""

\* C9: when the running-late write fails with an error body that carries
\* error.message, the answer is {success:false, error:<that message>}; when the
\* failure carries none, the error is the generic text.
C9_WriteFailureMessage ==
    \A r \in Requests :
        (obs[r].fail # <<>> /\ obs[r].fail[1].kind = "put") =>
            /\ Len(responses[r]) = 1
            /\ ~responses[r][1].success
            /\ responses[r][1].error =
                  IF CarriesMessage(obs[r].fail[1].error)
                  THEN obs[r].fail[1].error.message
                  ELSE GenericError

\* Scenario E: the write failed with 'Concurrency conflict' and the answer says so
C9_Witness ==
    \E r \in Requests :
        /\ obs[r].fail # <<>>
        /\ obs[r].fail[1].kind = "put"
        /\ obs[r].fail[1].error.message = "Concurrency conflict"
        /\ Len(responses[r]) = 1
        /\ responses[r][1].error = "Concurrency conflict"

----------------------------------------------------------------------------
(* C10 *)

\* the token call of request r failed
TokenCallFailed(r) == obs[r].fail # <<>> /\ obs[r].fail[1].kind = "token"

\* the failed token call is the last upstream call of the request
NothingAfterTokenFailure(r) ==
    /\ h[r].pc = "done"
    /\ calls[r] # <<>>
    /\ Last(calls[r]) = TokenCall
    /\ NoTwoTokenCallsInARow(calls[r])

\* C10 as stated: when the token endpoint fails, the caller gets the generic
\* message whatever the error body contains, and no upstream call, token
\* endpoint included, follows the failed token call.
C10_TokenFailureIsGeneric ==
    \A r \in Requests :
        TokenCallFailed(r) =>
            /\ Len(responses[r]) = 1
            /\ responses[r][1].error = GenericError
            /\ NothingAfterTokenFailure(r)

\* C10 as amended: when the token endpoint fails, the caller gets the generic
\* message unless the token endpoint's error body carries error.message, which
\* is then the error answered; no upstream call follows the failed token call.
C10_TokenFailureMessageAndNoRetry ==
    \A r \in Requests :
        TokenCallFailed(r) =>
            /\ Len(responses[r]) = 1
            /\ ~responses[r][1].success
            /\ responses[r][1].error =
                  IF CarriesMessage(obs[r].fail[1].error)
                  THEN obs[r].fail[1].error.message
                  ELSE GenericError
            /\ NothingAfterTokenFailure(r)

\* the token endpoint was unreachable on a refresh late in a request, and the
\* answer is the generic text
C10_Witness ==
    \E r \in Requests :
        /\ TokenCallFailed(r)
        /\ ~obs[r].fail[1].error.hasResponse
        /\ Len(calls[r]) >= 3
        /\ Len(responses[r]) = 1
        /\ responses[r][1].error = GenericError

----------------------------------------------------------------------------
(* C11 *)

\* the request was answered with this failure and nothing else
AnsweredOnly(r, text) ==
    /\ h[r].pc = "done"
    /\ responses[r] = <<FailureResponse(text)>>

NoCallOfKind(r, kinds) == \A i \in 1..Len(calls[r]) : calls[r][i].kind \notin kinds

\* C11: an empty client-lookup result is answered 'No client found ...' and no
\* appointments query is made; an empty appointments list is answered 'No
\* appointments found ...'; a list with no non-cancelled future appointment is
\* answered 'No upcoming appointments ...'; a running-late read without data is
\* answered 'Could not get appointment details'.  The three not-found texts
\* differ, and in all four cases no running-late write is issued, and in the
\* first three no running-late read either.
C11_NotFoundCasesStopTheRequest ==
    /\ Cardinality({NoClientError, NoAppointmentsError, NoUpcomingError}) = 3
    /\ \A r \in Requests :
          /\ obs[r].empty = "lookup" =>
                /\ AnsweredOnly(r, NoClientError)
                /\ NoCallOfKind(r, {"apts", "details", "put"})
          /\ obs[r].empty = "apts" =>
                /\ AnsweredOnly(r, NoAppointmentsError)
                /\ NoCallOfKind(r, {"details", "put"})
          /\ (obs[r].apts # <<>> /\ Qualifying(obs[r].apts[1], obs[r].aptsAt) = {}) =>
                /\ AnsweredOnly(r, NoUpcomingError)
                /\ NoCallOfKind(r, {"details", "put"})
          /\ obs[r].empty = "details" =>
                /\ AnsweredOnly(r, NoDetailsError)
                /\ NoCallOfKind(r, {"put"})

\* Scenario B: a lookup by phone came back with an empty client list and the
\* request was answered
C11_Witness ==
    \E r \in Requests :
        /\ obs[r].empty = "lookup"
        /\ h[r].body.client_phone = PhoneScenarioA
        /\ h[r].pc = "done"
        /\ Len(calls[r]) >= 1
        /\ Last(calls[r]).kind \in {"lookup", "clients"}

----------------------------------------------------------------------------
(* C12: phone normalisation over every client_phone up to MaxPhoneLen characters *)

PhoneAlphabet == {"1", "5", "-"}

PhoneInputs == UNION {[1..n -> PhoneAlphabet] : n \in 1..MaxPhoneLen}

\* a request with a client_phone is about to arrive; a token is cached
InitPhone ==
    /\ version \in {1, 2}
    /\ now = 0
    /\ token = 1
    /\ tokenExpiry = NewExpiry(0, 900)
    /\ issue = [tok |-> 1, issuedAt |-> 0, receivedAt |-> 0, lifeMs |-> 900 * MsPerSecond]
    /\ \E phone \in PhoneInputs :
          h = [r \in Requests |-> [IdleLocals EXCEPT !.body = Body("", phone, <<>>, "")]]
    /\ calls = [r \in Requests |-> <<>>]
    /\ responses = [r \in Requests |-> <<>>]
    /\ obs = [r \in Requests |-> NoObs]

\* the request arrives
ReceivePhone(r) == h[r].body # NoBody /\ Receive(r, h[r].body)

NextPhone == \E r \in Requests : ReceivePhone(r)

SpecPhone == InitPhone /\ [][NextPhone]_vars

DigitPositions(s) == {i \in 1..Len(s) : s[i] \in Digits}

\* the position of the k-th of the last ten digits of s
TenthLastDigit(s, k) ==
    CHOOSE i \in DigitPositions(s) :
        Cardinality({j \in DigitPositions(s) : j > i}) = 10 - k

\* C12: for every client_phone with at least 10 digits, the phone sent in the
\* client-lookup filter is exactly the last 10 digits of the input's digit
\* sequence, whatever other characters and leading digits the input has.
C12_LookupPhoneIsLastTenDigits ==
    \A r \in Requests : \A i \in 1..Len(calls[r]) :
        (calls[r][i].kind = "lookup"
            /\ Cardinality(DigitPositions(h[r].body.client_phone)) >= 10) =>
            LET s == h[r].body.client_phone
                sent == calls[r][i].body.PhoneNumbers
            IN  /\ Len(sent) = 1
                /\ Len(sent[1]) = 10
                /\ \A k \in 1..10 : sent[1][k] = s[TenthLastDigit(s, k)]

\* a lookup went out for a phone of the greatest length, the country code 1 in
\* front, and the country code is not part of what was sent
C12_Witness ==
    \E r \in Requests :
        /\ calls[r] # <<>>
        /\ Last(calls[r]).kind = "lookup"
        /\ Len(h[r].body.client_phone) = MaxPhoneLen
        /\ Cardinality(DigitPositions(h[r].body.client_phone)) >= 10
        /\ h[r].body.client_phone[1] = "1"
        /\ h[r].body.client_phone[2] = "5"
        /\ Last(calls[r]).body.PhoneNumbers[1][1] = "5"

----------------------------------------------------------------------------
(* C13 *)

\* the upstream API calls of a log, token calls left out
ApiCalls(log) ==
    LET IsApi(c) == c.kind # "token"
    IN  SelectSeq(log, IsApi)

\* the place of an upstream API call on the path of a request
Step(kind) ==
    CASE kind \in {"lookup", "clients"} -> 1
      [] kind = "apts" -> 2
      [] kind = "details" -> 3
      [] kind = "put" -> 4

\* C13: within one request the client lookup, the appointments query, the
\* running-late read and the running-late write are each issued at most once
\* and in that order; the path starts with the lookup when the identifier has
\* to be resolved and with the read when it was supplied; every later call
\* comes right after the call before it on the path, so the write always
\* follows a read; nothing is issued once a call has failed.
C13_CallsFollowThePath ==
    \A r \in Requests :
        LET api == ApiCalls(calls[r])
        IN  /\ \A i, j \in 1..Len(api) : i < j => Step(api[i].kind) < Step(api[j].kind)
            /\ api # <<>> =>
                  Step(api[1].kind) = IF LookupNeeded(h[r].body) THEN 1 ELSE 3
            /\ \A i \in 2..Len(api) : Step(api[i].kind) = Step(api[i - 1].kind) + 1
            /\ obs[r].fail # <<>> => h[r].pc = "done"

----------------------------------------------------------------------------
(* Requests in flight at the same time *)

ConcRequests == {1, 2}

ConcBodies == {Body("APT-42", <<>>, <<>>, "")}

ConcErrors == {[hasResponse |-> FALSE, message |-> Undefined]}

ConcDetails ==
    {d \in DetailsData : d.concurrencyCheckDigits = ListedCcd /\ d.startTime = TickMs}

InitConc ==
    /\ version \in {1, 2}
    /\ now = 0
    /\ token = 0
    /\ tokenExpiry = -1
    /\ h = [r \in ConcRequests |-> IdleLocals]
    /\ calls = [r \in ConcRequests |-> <<>>]
    /\ responses = [r \in ConcRequests |-> <<>>]
    /\ issue = NoIssue
    /\ obs = [r \in ConcRequests |-> NoObs]

\* the upstream answers the call request r is waiting for
Answer(r) ==
    \/ \E a \in TokenValues, e \in ExpiresIn :
            \E t \in {h[r].tokSentAt, now} : TokenReturn(r, a, e, t)
    \/ \E error \in ConcErrors : TokenFail(r, error)
    \/ \E error \in ConcErrors : ApiFail(r, error)
    \/ \E data \in {<<>>} \cup {<<d>> : d \in ConcDetails} : DetailsReturn(r, data)
    \/ PutReturn(r)

NextConc ==
    \/ \E r \in ConcRequests, body \in ConcBodies : Receive(r, body)
    \/ \E r \in ConcRequests : Answer(r)
    \/ \E r \in ConcRequests : Reset(r)
    \/ Tick

SpecConc == InitConc /\ [][NextConc]_vars

\* the upstream answers again, the token endpoint issuing one token value at
\* the moment its response arrives
AnswerNow(r) ==
    \/ \E e \in ExpiresIn : TokenReturn(r, 1, e, now)
    \/ \E error \in ConcErrors : TokenFail(r, error)
    \/ \E error \in ConcErrors : ApiFail(r, error)
    \/ \E data \in {<<>>} \cup {<<d>> : d \in ConcDetails} : DetailsReturn(r, data)
    \/ PutReturn(r)

NextFair ==
    \/ \E r \in ConcRequests, body \in ConcBodies : Receive(r, body)
    \/ \E r \in ConcRequests : AnswerNow(r)
    \/ \E r \in ConcRequests : Reset(r)
    \/ Tick

\* every upstream call eventually returns or fails
FairSpecConc ==
    InitConc /\ [][NextFair]_vars /\ \A r \in ConcRequests : WF_vars(AnswerNow(r))

----------------------------------------------------------------------------
(* C14 *)

\* the slot is empty, or holds the access token of one token response together
\* with the expiry computed from that same response
SlotFromOneResponse ==
    \/ token = 0 /\ tokenExpiry = -1
    \/ /\ token \in TokenValues
       /\ token = issue.tok
       /\ tokenExpiry = issue.receivedAt + issue.lifeMs

\* C14: with several requests in flight, each of which may make its own token
\* call, the slot always holds the token and the expiry of one and the same token
\* response (or is still empty), and whenever getToken returns to a caller it
\* hands over a token the token endpoint issued, the one in the slot at that moment.
C14_SlotNeverMixesResponses ==
    [][/\ SlotFromOneResponse'
       /\ \A r \in ConcRequests :
            GetTokenReturns(r) =>
                /\ h'[r].authToken \in TokenValues
                /\ h'[r].authToken = token'
                /\ h'[r].authToken = issue'.tok]_vars

\* two requests made their own token calls: the response to one has filled the
\* slot and that request goes on with it, while the other call, sent before
\* that response arrived, is still in flight
C14_Witness ==
    /\ \E r \in ConcRequests : h[r].pc = "token" /\ h[r].tokSentAt < issue.receivedAt
    /\ \E r \in ConcRequests : h[r].pc = "api"
    /\ token \in TokenValues
    /\ issue.receivedAt > 0

----------------------------------------------------------------------------
(* C15 *)

NoFilters == [PhoneNumbers |-> <<>>, EmailIds |-> <<>>]

\* the elements of a sequence
Values(seq) == {seq[i] : i \in 1..Len(seq)}

\* the filters the client-lookup call c carries
Filters(c) == IF c.kind = "lookup" THEN c.body ELSE NoFilters

\* C15: every client-lookup call carries exactly one filter, and a non-empty
\* one: the phone filter with the normalized phone whenever client_phone is
\* supplied (also when client_email is supplied too), the email filter with
\* the lower-cased email when only client_email is supplied.
C15_LookupCarriesOneFilter ==
    \A r \in Requests :
        \A i \in 1..Len(calls[r]) :
            LET c == calls[r][i]
                f == Filters(c)
                body == h[r].body
            IN  c.kind \in {"lookup", "clients"} =>
                    /\ (f.PhoneNumbers # <<>>) # (f.EmailIds # <<>>)
                    /\ \A v \in Values(f.PhoneNumbers) \cup Values(f.EmailIds) : v # <<>>
                    /\ Truthy(body.client_phone) =>
                            f = [PhoneNumbers |-> <<normalizedPhone(body.client_phone)>>,
                                 EmailIds |-> <<>>]
                    /\ (~Truthy(body.client_phone) /\ Truthy(body.client_email)) =>
                            f = [PhoneNumbers |-> <<>>,
                                 EmailIds |-> <<normalizedEmail(body.client_email)>>]

----------------------------------------------------------------------------
(* C16 *)

\* in this step an upstream API call of request r is sent
ApiCallSent(r) ==
    /\ Len(calls'[r]) = Len(calls[r]) + 1
    /\ Last(calls'[r]).kind # "token"

\* C16: every upstream API call of a request is sent right after a getToken
\* consultation of its own (a cache hit at that moment, or a token call whose
\* response has just arrived) and carries the token that consultation returned;
\* all API calls of the request carry the configured tenant and one location,
\* the caller's location_id if supplied and the default otherwise, and the
\* running-late write carries the appointment identifier of the running-late read.
C16_CallsCarryOwnTokenAndSameScope ==
    [][\A r \in Requests :
          ApiCallSent(r) =>
              LET c == Last(calls'[r])
                  body == h'[r].body
              IN  /\ h'[r].pc = "api"
                  /\ h'[r].authToken \in TokenValues
                  /\ h'[r].authToken = token'
                  /\ IF h[r].pc = "token"
                     THEN /\ Last(calls[r]) = TokenCall
                          /\ token' = issue'.tok
                          /\ issue'.receivedAt = now
                     ELSE /\ TokenValid(token, tokenExpiry, now)
                          /\ token' = token
                  /\ c.tenant = CONFIG_TENANT_ID
                  /\ c.loc = IF TruthyId(body.location_id) THEN body.location_id
                                                           ELSE CONFIG_LOCATION_ID
                  /\ \A i \in 1..Len(calls[r]) :
                        calls[r][i].kind # "token" =>
                            /\ calls[r][i].tenant = c.tenant
                            /\ calls[r][i].loc = c.loc
                            /\ (calls[r][i].kind = "details" /\ c.kind = "put") =>
                                    calls[r][i].id = c.id]_vars

\* a request with its own location_id whose token ran out between the
\* running-late read and the running-late write: the write went out after a
\* token call of its own, for the same location and appointment as the read
C16_Witness ==
    \E r \in Requests :
        LET n == Len(calls[r])
        IN  /\ n >= 3
            /\ calls[r][n].kind = "put"
            /\ calls[r][n - 1] = TokenCall
            /\ calls[r][n - 2].kind = "details"
            /\ calls[r][n].loc = "L2"
            /\ calls[r][n].id = calls[r][n - 2].id
            /\ h[r].authToken = token

----------------------------------------------------------------------------
(* C17 *)

\* in this step the token call of request r fails
TokenCallFails(r) == h[r].pc = "token" /\ h'[r].pc = "done"

\* C17: a token call that fails leaves token and tokenExpiry as they were, and
\* once a token call has failed, a getToken call still does what it always
\* does: it returns the cached token if that is still valid and makes a new
\* token call otherwise.
C17_TokenFailureLeavesSlotAndIsNotSticky ==
    [][\A r \in ConcRequests :
          /\ TokenCallFails(r) => (token' = token /\ tokenExpiry' = tokenExpiry)
          /\ (GetTokenCalled(r) /\ \E q \in ConcRequests : TokenCallFailed(q)) =>
                IF token # 0 /\ now < tokenExpiry - Margin
                THEN /\ h'[r].pc = "api"
                     /\ h'[r].authToken = token
                     /\ Last(calls'[r]).kind # "token"
                ELSE /\ h'[r].pc = "token"
                     /\ Last(calls'[r]) = TokenCall]_vars

\* the token call of one request failed while the slot held an earlier token,
\* that token is still in the slot, and the other request, consulting getToken
\* later, has made a token call of its own
C17_Witness ==
    \E q, r \in ConcRequests :
        /\ q # r
        /\ TokenCallFailed(q)
        /\ token \in TokenValues
        /\ issue.receivedAt < obs[q].fail[1].at
        /\ h[r].pc = "token"
        /\ h[r].tokSentAt > obs[q].fail[1].at

----------------------------------------------------------------------------
(* C18 *)

\* request r is waiting for the answer to an upstream call
Awaiting(r) == h[r].pc \in {"token", "api"}

\* request r has sent its response
Responded(r) == h[r].pc = "done" /\ Len(responses[r]) = 1

\* C18: when every upstream call eventually returns or fails, every request
\* that waits for an upstream answer eventually sends its response, whatever
\* the other request does meanwhile; and a waiting request can always take the
\* answer to its call, whatever the state of the other request and of the slot.
C18_EveryRequestResponds ==
    \A r \in ConcRequests :
        /\ [](Awaiting(r) => ENABLED AnswerNow(r))
        /\ Awaiting(r) ~> Responded(r)

\* one request has sent its response while the other, whose token call went
\* out before the slot was last filled, is still waiting for its answer
C18_Witness ==
    \E q, r \in ConcRequests :
        /\ q # r
        /\ Responded(q)
        /\ responses[q][1].success
        /\ h[r].pc = "token"
        /\ h[r].tokSentAt < issue.receivedAt

====
